---- MODULE Spec2Model ----
(***************************************************************************)
(* Frame3D (src/src/triangulum/rendering/gui/frame3d.py): the window,      *)
(* its input callbacks, the graphics-context execution channel and the     *)
(* cooperative render loop, as one state machine.                          *)
(*                                                                         *)
(* Threads: the main thread runs the asyncio event loop (render_loop,      *)
(* init, the drop and probe tasks, and the GLFW callbacks, which GLFW      *)
(* dispatches from inside PollEvents); one graphics worker executes the    *)
(* tasks submitted to _gl_executor in submission order.                    *)
(***************************************************************************)
EXTENDS Integers, Sequences, FiniteSets, TLC

(***************************************************************************)
(* Bounds of the model.                                                    *)
(***************************************************************************)
MaxEnv == 3        \* environment inputs (events, API calls) over one run
MaxMouseEnv == 4   \* inputs over one run when only the mouse and the window act
MaxQueue == 2      \* deferred actions enqueued in one poll
MaxProbes == 1     \* cursor probes in flight
MaxDim == 2        \* window width and height range over 1..MaxDim
MaxCoord == 1      \* raw cursor coordinates range over 0..MaxCoord
MaxBatch == 2      \* paths in one file-drop batch
MaxDrops == 1      \* file-drop events over one run
MaxInitCalls == 1  \* init() calls made besides the one of render_loop
MaxCloseCalls == 2 \* close() calls over one run

(***************************************************************************)
(* Values of the window system (cyglfw3) and of the camera module.         *)
(***************************************************************************)
None == <<>>
PRESS == "PRESS"
RELEASE == "RELEASE"
REPEAT == "REPEAT"
KeyActions == {PRESS, RELEASE, REPEAT}
MOUSE_BUTTON_LEFT == "MOUSE_BUTTON_LEFT"
MOUSE_BUTTON_RIGHT == "MOUSE_BUTTON_RIGHT"
MouseButtons == {MOUSE_BUTTON_LEFT, MOUSE_BUTTON_RIGHT}
KEY_LEFT_ALT == "KEY_LEFT_ALT"
KEY_P == "KEY_P"
KEY_E == "KEY_E"
KEY_ESCAPE == "KEY_ESCAPE"
KEY_S == "KEY_S"
KEY_A == "KEY_A"
Keys == {KEY_LEFT_ALT, KEY_P, KEY_E, KEY_ESCAPE, KEY_S, KEY_A}
\* a modifier mask, as the set of its bits
NoMods == {}
MOD_ALT == {"alt"}
Mods == {NoMods, MOD_ALT}
\* the keyboard events delivered: every key pressed and released without
\* modifiers, the alt key pressed with its own modifier bit reported, and a
\* key repeat
KeyEvents ==
    (Keys \X {PRESS, RELEASE} \X {NoMods})
    \cup {<<KEY_LEFT_ALT, PRESS, MOD_ALT>>, <<KEY_A, REPEAT, NoMods>>}
perspective == "perspective"
ortho == "ortho"

Dims == 1..MaxDim
Coords == 0..MaxCoord

(***************************************************************************)
(* Dropped paths, as the characters of the decoded string.                 *)
(***************************************************************************)
PathGood == <<"a", ".", "p", "l", "y">>
PathBroken == <<"b", ".", "p", "l", "y">>
PathText == <<"a", ".", "t", "x", "t">>
Paths == {PathGood, PathBroken, PathText}
\* files whose content the loader rejects (points_cloud.load_ply raises)
Malformed == {PathBroken}
PlySuffix == <<".", "p", "l", "y">>

endswith(path, suffix) ==
    /\ Len(path) >= Len(suffix)
    /\ SubSeq(path, Len(path) - Len(suffix) + 1, Len(path)) = suffix

Batches == UNION {[1..n -> Paths] : n \in 1..MaxBatch}

(***************************************************************************)
(* Exact quotients n/d (Python's true division), as reduced fractions.     *)
(***************************************************************************)
Abs(n) == IF n < 0 THEN -n ELSE n

RECURSIVE Gcd(_, _)
Gcd(a, b) == IF b = 0 THEN a ELSE Gcd(b, a % b)

Div(n, d) ==
    LET g == Gcd(Abs(n), d)
    IN  <<n \div g, d \div g>>

Names == {"n1", "n2"}
Callbacks == {"f", "g"}
InitCallers == 1..MaxInitCalls
LOOP == 0
PROBE == -1
Callers == {LOOP} \cup InitCallers

VARIABLES
    pc,                     \* position of the render_loop coroutine
    di,                     \* index of the task the drain loop is at
    ipc,                    \* position of each init() coroutine
    _initialized,
    _to_do,
    _viewport_actual,
    _width,
    _height,
    _camera,
    _edges_mode,
    _last_mouse_xy,
    _mouse_buttons_down,
    _keyboard_buttons_down,
    _on_keyboard_callbacks,
    scene,                  \* Scene: the renderables added, in order
    fps_stopped,            \* FPSLimiter: stop() was called
    update_requested,       \* FPSLimiter: update() was called since the last frame
    dc_last,                \* DoubleClickHandler: button of the last recorded press
    should_close,           \* GLFW: the window's should-close flag
    close_pending,          \* GLFW: a close request waits for the next PollEvents
    gl_queue,               \* RenderingAsyncExecutor: tasks submitted, not yet run
    probes,                 \* cursor probes scheduled, not yet started
    loads,                  \* read_and_register tasks
    env,                    \* environment inputs so far
    dropped,                \* the file-drop batches delivered so far
    enq,                    \* ids of the actions enqueued by this iteration's poll
    ran,                    \* ids of the actions begun by this iteration's drain
    fin,                    \* ids of the actions completed by this iteration's drain
    frame_calls,            \* graphics calls of the frame in progress: <<call, thread>>
    vp_calls,               \* glViewport calls since the viewport was last marked stale
    gl_viewport,            \* the arguments of the last glViewport call
    kb_event,               \* the keyboard event delivered last in this poll
    kb_subscribers,         \* _on_keyboard_callbacks when that event arrived
    cb_log,                 \* the subscriber calls made for that event
    cam_calls,              \* the camera calls made by the input handler run last
    reg_count,              \* times the window callbacks were registered
    gl_init_count,          \* times init_gl_context ran
    rn_init_count,          \* times the renderer's init ran
    destroy_calls,          \* glfw.DestroyWindow calls
    task_res,               \* what the awaited graphics task of the drain returned
    resize_args,            \* the arguments of the last resize callback
    close_at,               \* where render_loop was when the close request arrived
    last_event,             \* the input event handled last in this poll: <<kind, args, number>>
    last_raw_xy,            \* the position GLFW reported with the last cursor event
    budget,                 \* the number of environment inputs this run may take
    error                   \* the exception that ended render_loop, if one did

loopVars == <<pc, di, task_res, ipc, _initialized, _to_do>>
viewVars == <<_viewport_actual, _width, _height, _camera>>
inputVars == <<_edges_mode, _last_mouse_xy, _mouse_buttons_down,
               _keyboard_buttons_down, dc_last>>
subsVars == <<_on_keyboard_callbacks>>
sysVars == <<fps_stopped, update_requested, should_close, close_pending>>
taskVars == <<gl_queue, probes, loads, scene>>
iterVars == <<enq, ran, fin, frame_calls, vp_calls, gl_viewport>>
evVars == <<kb_event, kb_subscribers, cb_log, cam_calls>>
cntVars == <<reg_count, gl_init_count, rn_init_count, destroy_calls, error>>
budVars == <<env, dropped>>
ghostVars == <<resize_args, close_at, last_event, last_raw_xy, budget>>

vars == <<loopVars, viewVars, inputVars, subsVars, sysVars, taskVars, iterVars,
          evVars, cntVars, budVars, ghostVars>>

(***************************************************************************)
(* Frame3D.__init__                                                        *)
(***************************************************************************)
Constructed ==
    /\ pc = "new"
    /\ di = 0
    /\ task_res = None
    /\ ipc = [c \in Callers |-> "none"]
    /\ _initialized = FALSE
    /\ _to_do = <<>>
    /\ _viewport_actual = FALSE
    /\ _width = MaxDim
    /\ _height = 1
    /\ _camera = [aspect |-> Div(_height, _width), mode |-> perspective, target |-> None]
    /\ _edges_mode = "undefined"       \* __init__ never assigns self._edges_mode
    /\ _last_mouse_xy = None
    /\ _mouse_buttons_down = {}
    /\ _keyboard_buttons_down = [k \in {} |-> NoMods]
    /\ _on_keyboard_callbacks = [n \in {} |-> "f"]
    /\ scene = <<>>
    /\ fps_stopped = FALSE
    /\ update_requested = FALSE
    /\ dc_last = "none"
    /\ should_close = FALSE
    /\ close_pending = FALSE
    /\ gl_queue = <<>>
    /\ probes = 0
    /\ loads = <<>>
    /\ env = 0
    /\ dropped = <<>>
    /\ enq = <<>>
    /\ ran = <<>>
    /\ fin = <<>>
    /\ frame_calls = <<>>
    /\ vp_calls = 0
    /\ gl_viewport = None
    /\ kb_event = None
    /\ kb_subscribers = [n \in {} |-> "f"]
    /\ cb_log = {}
    /\ cam_calls = <<>>
    /\ reg_count = 0
    /\ gl_init_count = 0
    /\ rn_init_count = 0
    /\ destroy_calls = 0
    /\ error = "none"
    /\ resize_args = None
    /\ close_at = "none"
    /\ last_event = None
    /\ last_raw_xy = None

Init == Constructed /\ budget = MaxEnv

Terminated == pc \in {"stopped", "closed", "crashed"}

(***************************************************************************)
(* The graphics-context execution channel: map() appends a task, the one   *)
(* worker runs the tasks in submission order.                              *)
(***************************************************************************)
gl_map(op, owner, args) ==
    Append(gl_queue, [op |-> op, owner |-> owner, args |-> args])

(***************************************************************************)
(* Frame3D.init                                                            *)
(***************************************************************************)
\* line 69: assert not self._initialized
init_assert == ~_initialized

\* lines 69-80, up to the first suspension
init_begin(c) ==
    IF init_assert
    THEN /\ reg_count' = reg_count + 1
         /\ gl_queue' = gl_map("init_gl_context", c, None)
         /\ ipc' = [ipc EXCEPT ![c] = "gl_wait"]
    ELSE /\ ipc' = [ipc EXCEPT ![c] = "assert_failed"]
         /\ UNCHANGED <<reg_count, gl_queue>>

\* a caller other than render_loop calls init()
init(c) ==
    /\ c \in InitCallers
    /\ ipc[c] = "none"
    /\ destroy_calls = 0
    /\ env < budget
    /\ env' = env + 1
    /\ init_begin(c)
    /\ UNCHANGED <<pc, di, task_res, _initialized, _to_do, viewVars, inputVars,
                   subsVars, sysVars, probes, loads, scene, iterVars, evVars,
                   gl_init_count, rn_init_count, destroy_calls, error, dropped, ghostVars>>

\* line 81: the context is ready, the renderer's init is awaited
init_renderer(c) ==
    /\ ipc[c] = "gl_done"
    /\ gl_queue' = gl_map("renderer_init", c, None)
    /\ ipc' = [ipc EXCEPT ![c] = "rn_wait"]
    /\ UNCHANGED <<pc, di, task_res, _initialized, _to_do, viewVars, inputVars,
                   subsVars, sysVars, probes, loads, scene, iterVars, evVars,
                   cntVars, budVars, ghostVars>>

\* line 82, and the return into render_loop when render_loop is the caller
init_end(c) ==
    /\ ipc[c] = "rn_done"
    /\ _initialized' = TRUE
    /\ ipc' = [ipc EXCEPT ![c] = "done"]
    /\ pc' = IF c = LOOP THEN "top" ELSE pc
    /\ UNCHANGED <<di, task_res, _to_do, viewVars, inputVars, subsVars, sysVars,
                   taskVars, iterVars, evVars, cntVars, budVars, ghostVars>>

(***************************************************************************)
(* Frame3D.render_loop                                                     *)
(***************************************************************************)
\* lines 265-266
render_loop_begin ==
    /\ pc = "new"
    /\ IF ~_initialized
       THEN /\ init_begin(LOOP)
            /\ pc' = "init"
       ELSE /\ pc' = "top"
            /\ UNCHANGED <<ipc, reg_count, gl_queue>>
    /\ UNCHANGED <<di, task_res, _initialized, _to_do, viewVars, inputVars,
                   subsVars, sysVars, probes, loads, scene, iterVars, evVars,
                   gl_init_count, rn_init_count, destroy_calls, error, budVars, ghostVars>>

\* FPSLimiter.ensure_frame_limit: a call on a stopped limiter fails, any
\* other call runs poll_fn first
ensure_frame_limit_enter == IF fps_stopped THEN "cancelled" ELSE "poll"

\* FPSLimiter.ensure_frame_limit: the suspended call fails once stop() was
\* called, and returns otherwise
ensure_frame_limit_leave == IF fps_stopped THEN "cancelled" ELSE "returned"

\* the handler going on with the loop instead of leaving it
on_cancelled_continue == "top"

\* lines 271-273: except CancelledError: break
on_cancelled == "stopped"

\* a loop that does not test the should-close flag
render_loop_iterate_forever ==
    /\ pc = "top"
    /\ pc' = IF ensure_frame_limit_enter = "cancelled"
             THEN on_cancelled ELSE "poll"
    /\ enq' = <<>>
    /\ ran' = <<>>
    /\ fin' = <<>>
    /\ UNCHANGED <<di, task_res, ipc, _initialized, _to_do, viewVars, inputVars,
                   subsVars, sysVars, taskVars, frame_calls, vp_calls,
                   gl_viewport, evVars, cntVars, budVars, ghostVars>>

\* line 268 and the call of line 270, up to glfw.PollEvents
render_loop_iterate ==
    /\ pc = "top"
    /\ IF should_close
       THEN pc' = "closed"
       ELSE pc' = IF ensure_frame_limit_enter = "cancelled"
                  THEN on_cancelled ELSE "poll"
    /\ enq' = <<>>
    /\ ran' = <<>>
    /\ fin' = <<>>
    /\ UNCHANGED <<di, task_res, ipc, _initialized, _to_do, viewVars, inputVars,
                   subsVars, sysVars, taskVars, frame_calls, vp_calls,
                   gl_viewport, evVars, cntVars, budVars, ghostVars>>

\* glfw.PollEvents returns once every pending event was dispatched
PollEvents_return ==
    /\ pc = "poll"
    /\ ~close_pending
    /\ pc' = "wait"
    /\ kb_event' = None
    /\ kb_subscribers' = [n \in {} |-> "f"]
    /\ cb_log' = {}
    /\ cam_calls' = <<>>
    /\ last_event' = None
    /\ UNCHANGED <<di, task_res, ipc, _initialized, _to_do, viewVars, inputVars,
                   subsVars, sysVars, taskVars, iterVars, cntVars, budVars,
                   resize_args, close_at, last_raw_xy, budget>>

\* lines 269-275: the limiter's wait ends
render_loop_resume ==
    /\ pc = "wait"
    /\ IF ensure_frame_limit_leave = "cancelled"
       THEN /\ pc' = on_cancelled
            /\ UNCHANGED di
       ELSE /\ pc' = "drain"
            /\ di' = 1
    /\ update_requested' = FALSE
    /\ UNCHANGED <<task_res, ipc, _initialized, _to_do, viewVars, inputVars,
                   subsVars, fps_stopped, should_close, close_pending, taskVars,
                   iterVars, evVars, cntVars, budVars, ghostVars>>

\* the for loop taking the newest task first
next_task_lifo == _to_do[Len(_to_do) - di + 1]

\* line 275: the task the for loop takes next
next_task == _to_do[di]

\* lines 275-277: the for loop takes its next task and runs it up to its
\* first suspension (lines 137-140 for the focus action, lines 171-175 for
\* the screenshot), or ends and clears the list
render_loop_drain ==
    /\ pc = "drain"
    /\ IF di <= Len(_to_do)
       THEN /\ ran' = Append(ran, next_task.id)
            /\ UNCHANGED _to_do
            /\ IF next_task.kind = "focus"
               THEN IF _last_mouse_xy = None
                    THEN \* x, y = None raises TypeError out of render_loop
                         /\ pc' = "crashed"
                         /\ error' = "TypeError"
                         /\ UNCHANGED gl_queue
                    ELSE /\ pc' = "task"
                         /\ gl_queue' = gl_map("glReadPixels", LOOP, _last_mouse_xy)
                         /\ UNCHANGED error
               ELSE /\ pc' = "task"
                    /\ gl_queue' = gl_map("offscreen_render", LOOP, None)
                    /\ UNCHANGED error
       ELSE /\ _to_do' = <<>>
            /\ pc' = "render"
            /\ UNCHANGED <<ran, gl_queue, error>>
    /\ UNCHANGED <<di, task_res, ipc, _initialized, viewVars, inputVars,
                   subsVars, sysVars, probes, loads, scene, enq, fin,
                   frame_calls, vp_calls, gl_viewport, evVars, reg_count,
                   gl_init_count, rn_init_count, destroy_calls, budVars, ghostVars>>

\* lines 141-149: the world point under pixel (x, y) at depth z, kept as the
\* values it is computed from
unproject(x, y, z) == <<x, y, z, _width, _height, _camera.mode, _camera.aspect>>

\* lines 162-167 (focus) and 177-188 (screenshot): the awaited graphics task
\* is done and the action runs to its end
render_loop_task_end ==
    /\ pc = "task_done"
    /\ \/ /\ next_task.kind = "focus"
          /\ _camera' = IF task_res[3] = "far"
                        THEN _camera
                        ELSE [_camera EXCEPT
                                !.target = unproject(task_res[1], task_res[2], task_res[3])]
          /\ pc' = "drain"
          /\ di' = di + 1
          /\ fin' = Append(fin, next_task.id)
          /\ UNCHANGED error
       \/ /\ next_task.kind = "screenshot"
          /\ pc' = "drain"
          /\ di' = di + 1
          /\ fin' = Append(fin, next_task.id)
          /\ UNCHANGED <<_camera, error>>
       \/ \* support.save_image fails: the error leaves render_loop
          /\ next_task.kind = "screenshot"
          /\ pc' = "crashed"
          /\ error' = "IOError"
          /\ UNCHANGED <<_camera, di, fin>>
    /\ task_res' = None
    /\ UNCHANGED <<ipc, _initialized, _to_do, _viewport_actual, _width, _height,
                   inputVars, subsVars, sysVars, taskVars, enq, ran,
                   frame_calls, vp_calls, gl_viewport, evVars, reg_count,
                   gl_init_count, rn_init_count, destroy_calls, budVars, ghostVars>>

(***************************************************************************)
(* Frame3D.render                                                          *)
(***************************************************************************)
\* line 259
render_viewport ==
    /\ pc = "render"
    /\ gl_queue' = gl_map("_gl_update_viewport", LOOP, None)
    /\ frame_calls' = <<>>
    /\ pc' = "vp_wait"
    /\ UNCHANGED <<di, task_res, ipc, _initialized, _to_do, viewVars, inputVars,
                   subsVars, sysVars, probes, loads, scene, enq, ran, fin,
                   vp_calls, gl_viewport, evVars, cntVars, budVars, ghostVars>>

\* line 260: SimpleRenderer.render draws through the executor it was given
render_scene ==
    /\ pc = "scene"
    /\ gl_queue' = gl_map("renderer_render", LOOP, None)
    /\ pc' = "scene_wait"
    /\ UNCHANGED <<di, task_res, ipc, _initialized, _to_do, viewVars, inputVars,
                   subsVars, sysVars, probes, loads, scene, iterVars, evVars,
                   cntVars, budVars, ghostVars>>

\* line 261: the thread glfw.SwapBuffers is called on
swap_thread == "main"

\* line 261
render_swap ==
    /\ pc = "swap"
    /\ frame_calls' = Append(frame_calls, <<"SwapBuffers", swap_thread>>)
    /\ pc' = "top"
    /\ UNCHANGED <<di, task_res, ipc, _initialized, _to_do, viewVars, inputVars,
                   subsVars, sysVars, taskVars, enq, ran, fin, vp_calls,
                   gl_viewport, evVars, cntVars, budVars, ghostVars>>

(***************************************************************************)
(* The graphics worker: it takes the oldest submitted task and runs it.    *)
(***************************************************************************)
gl_head(op) == gl_queue # <<>> /\ Head(gl_queue).op = op

\* GLFWContext / RenderingAsyncExecutor.init_gl_context
gl_init_gl_context ==
    /\ gl_head("init_gl_context")
    /\ gl_queue' = Tail(gl_queue)
    /\ gl_init_count' = gl_init_count + 1
    /\ ipc' = [ipc EXCEPT ![Head(gl_queue).owner] = "gl_done"]
    /\ UNCHANGED <<pc, di, task_res, _initialized, _to_do, viewVars, inputVars,
                   subsVars, sysVars, probes, loads, scene, iterVars, evVars,
                   reg_count, rn_init_count, destroy_calls, error, budVars, ghostVars>>

\* SimpleRenderer.init
gl_renderer_init ==
    /\ gl_head("renderer_init")
    /\ gl_queue' = Tail(gl_queue)
    /\ rn_init_count' = rn_init_count + 1
    /\ ipc' = [ipc EXCEPT ![Head(gl_queue).owner] = "rn_done"]
    /\ UNCHANGED <<pc, di, task_res, _initialized, _to_do, viewVars, inputVars,
                   subsVars, sysVars, probes, loads, scene, iterVars, evVars,
                   reg_count, gl_init_count, destroy_calls, error, budVars, ghostVars>>

\* the viewport update without the assignment of line 255
_gl_update_viewport_keeps_stale ==
    IF ~_viewport_actual
    THEN /\ gl_viewport' = <<0, 0, _width, _height>>
         /\ vp_calls' = IF vp_calls < 2 THEN vp_calls + 1 ELSE vp_calls
         /\ frame_calls' = Append(frame_calls, <<"glViewport", "gl">>)
         /\ UNCHANGED _viewport_actual
    ELSE UNCHANGED <<gl_viewport, vp_calls, frame_calls, _viewport_actual>>

\* lines 252-255, run by the worker
_gl_update_viewport ==
    IF ~_viewport_actual
    THEN /\ gl_viewport' = <<0, 0, _width, _height>>
         /\ vp_calls' = IF vp_calls < 2 THEN vp_calls + 1 ELSE vp_calls
         /\ frame_calls' = Append(frame_calls, <<"glViewport", "gl">>)
         /\ _viewport_actual' = TRUE
    ELSE UNCHANGED <<gl_viewport, vp_calls, frame_calls, _viewport_actual>>

gl_update_viewport ==
    /\ gl_head("_gl_update_viewport")
    /\ gl_queue' = Tail(gl_queue)
    /\ _gl_update_viewport
    /\ pc' = "scene"
    /\ UNCHANGED <<di, task_res, ipc, _initialized, _to_do, _width, _height,
                   _camera, inputVars, subsVars, sysVars, probes, loads, scene,
                   enq, ran, fin, evVars, cntVars, budVars, ghostVars>>

\* SimpleRenderer.render, run by the worker
gl_renderer_render ==
    /\ gl_head("renderer_render")
    /\ gl_queue' = Tail(gl_queue)
    /\ frame_calls' = Append(frame_calls, <<"render", "gl">>)
    /\ pc' = "swap"
    /\ UNCHANGED <<di, task_res, ipc, _initialized, _to_do, viewVars, inputVars,
                   subsVars, sysVars, probes, loads, scene, enq, ran, fin,
                   vp_calls, gl_viewport, evVars, cntVars, budVars, ghostVars>>

\* line 140, run by the worker: the depth under the pixel is that of some
\* geometry or the far plane's 1.0
gl_read_pixels ==
    /\ gl_head("glReadPixels")
    /\ gl_queue' = Tail(gl_queue)
    /\ IF Head(gl_queue).owner = LOOP
       THEN /\ \E z \in {"hit", "far"} :
                 task_res' = <<Head(gl_queue).args[1], Head(gl_queue).args[2], z>>
            /\ pc' = "task_done"
       ELSE UNCHANGED <<task_res, pc>>     \* a probe logs the point (lines 154-157)
    /\ UNCHANGED <<di, ipc, _initialized, _to_do, viewVars, inputVars, subsVars,
                   sysVars, probes, loads, scene, iterVars, evVars, cntVars,
                   budVars, ghostVars>>

\* ImageRenderer.render (line 175), run by the worker
gl_offscreen_render ==
    /\ gl_head("offscreen_render")
    /\ gl_queue' = Tail(gl_queue)
    /\ pc' = "task_done"
    /\ UNCHANGED <<di, task_res, ipc, _initialized, _to_do, viewVars, inputVars,
                   subsVars, sysVars, probes, loads, scene, iterVars, evVars,
                   cntVars, budVars, ghostVars>>

(***************************************************************************)
(* Cursor probes (lines 151-158) and load tasks (lines 118-123): tasks of  *)
(* the event loop, wrapped by support.wrap_exc, which logs what they raise.*)
(***************************************************************************)
probes_in_flight ==
    probes + Cardinality({i \in 1..Len(gl_queue) : gl_queue[i].owner = PROBE})

\* line 158
_print_cursor_position == probes' = probes + 1

\* lines 154 and 137-140: the probe starts.  It is a task of the event loop,
\* which runs none while the main thread is inside glfw.PollEvents.
probe_begin ==
    /\ probes > 0
    /\ pc # "poll"
    /\ probes' = probes - 1
    /\ IF _last_mouse_xy = None
       THEN UNCHANGED gl_queue            \* TypeError, logged by wrap_exc
       ELSE gl_queue' = gl_map("glReadPixels", PROBE, _last_mouse_xy)
    /\ UNCHANGED <<loopVars, viewVars, inputVars, subsVars, sysVars, loads,
                   scene, iterVars, evVars, cntVars, budVars, ghostVars>>

\* line 132
add_points_cloud(points) == scene' = Append(scene, points)

\* lines 119-123: the load of task i ends; wrap_exc logs a load error
read_and_register(i) ==
    /\ i \in 1..Len(loads)
    /\ loads[i].st = "loading"
    /\ IF loads[i].path \in Malformed
       THEN /\ loads' = [loads EXCEPT ![i].st = "failed"]
            /\ UNCHANGED scene
       ELSE /\ loads' = [loads EXCEPT ![i].st = "registered"]
            /\ add_points_cloud(i)
    /\ UNCHANGED <<loopVars, viewVars, inputVars, subsVars, sysVars, gl_queue,
                   probes, iterVars, evVars, cntVars, budVars, ghostVars>>

(***************************************************************************)
(* The input callbacks.  GLFW calls them from inside glfw.PollEvents, one  *)
(* event at a time, on the main thread.                                    *)
(***************************************************************************)
delivering ==
    /\ pc = "poll"
    /\ env < budget
    /\ env' = env + 1

\* lines 249-250
update == update_requested' = TRUE

\* the append of lines 114 and 232: the coroutine object is created, not run
enqueue(kind) ==
    /\ Len(_to_do) < MaxQueue
    /\ _to_do' = Append(_to_do, [kind |-> kind, id |-> Len(enq) + 1,
                                 cursor |-> _last_mouse_xy])
    /\ enq' = Append(enq, Len(enq) + 1)

\* a double-click callback that does not look at the button
_on_mouse_double_click_any_button(button) ==
    /\ enqueue("focus")
    /\ update

\* lines 112-115
_on_mouse_double_click(button) ==
    IF button = MOUSE_BUTTON_LEFT
    THEN /\ enqueue("focus")
         /\ update
    ELSE UNCHANGED <<_to_do, enq, update_requested>>

\* DoubleClickHandler.on_pressed: a press of the button pressed last, within
\* the time window, is a double click and clears the record; any other press
\* is recorded
on_pressed(button) ==
    \/ /\ dc_last = button
       /\ dc_last' = "none"
       /\ _on_mouse_double_click(button)
    \/ /\ dc_last' = button
       /\ UNCHANGED <<_to_do, enq, update_requested>>

\* lines 92-99
_on_mouse_button(button, action) ==
    /\ delivering
    /\ IF action = PRESS
       THEN /\ _mouse_buttons_down' = _mouse_buttons_down \cup {button}
            /\ on_pressed(button)
       ELSE /\ _mouse_buttons_down' = _mouse_buttons_down \ {button}
            /\ UNCHANGED <<dc_last, _to_do, enq, update_requested>>
    /\ cam_calls' = <<>>
    /\ last_event' = <<"button", <<button, action>>, env'>>
    /\ UNCHANGED <<pc, di, task_res, ipc, _initialized, viewVars, _edges_mode,
                   _last_mouse_xy, _keyboard_buttons_down, subsVars, fps_stopped,
                   should_close, close_pending, taskVars, ran, fin, frame_calls,
                   vp_calls, gl_viewport, kb_event, kb_subscribers, cb_log,
                   cntVars, dropped, resize_args, close_at, last_raw_xy, budget>>

\* lines 101-105
_is_button_down(key, mods) ==
    IF key \notin DOMAIN _keyboard_buttons_down
    THEN FALSE
    ELSE _keyboard_buttons_down[key] = mods

\* lines 107-110
_on_scroll(x, y) ==
    /\ delivering
    /\ IF y # 0
       THEN /\ cam_calls' = << <<"zoom_in", y>> >>
            /\ update
       ELSE /\ cam_calls' = <<>>
            /\ UNCHANGED update_requested
    /\ last_event' = <<"scroll", <<x, y>>, env'>>
    /\ UNCHANGED <<loopVars, viewVars, inputVars, subsVars, fps_stopped,
                   should_close, close_pending, taskVars, iterVars, kb_event,
                   kb_subscribers, cb_log, cntVars, dropped, resize_args,
                   close_at, last_raw_xy, budget>>

\* a cursor callback that pans by the height instead of the width
_on_mouse_move_by_height(x, y0) ==
    LET y == _height - y0
        moved == _last_mouse_xy # None
        dx == x - _last_mouse_xy[1]
        dy == y - _last_mouse_xy[2]
        rotating == MOUSE_BUTTON_LEFT \in _mouse_buttons_down /\ moved
        moving == MOUSE_BUTTON_RIGHT \in _mouse_buttons_down /\ moved
    IN  /\ delivering
        /\ IF _is_button_down(KEY_LEFT_ALT, NoMods)
           THEN /\ probes_in_flight < MaxProbes
                /\ _print_cursor_position
           ELSE UNCHANGED probes
        /\ cam_calls' =
             (IF rotating THEN << <<"rotate", dx, dy>> >> ELSE <<>>)
             \o (IF moving
                 THEN << <<"move", Div(-dx, _height), Div(-dy, _height)>> >>
                 ELSE <<>>)
        /\ IF rotating \/ moving THEN update ELSE UNCHANGED update_requested
        /\ _last_mouse_xy' = <<x, y>>
        /\ last_event' = <<"move", <<x, y0, _last_mouse_xy, last_raw_xy>>, env'>>
        /\ last_raw_xy' = <<x, y0>>
        /\ UNCHANGED <<loopVars, viewVars, _edges_mode, _mouse_buttons_down,
                       _keyboard_buttons_down, dc_last, subsVars, fps_stopped,
                       should_close, close_pending, gl_queue, loads, scene,
                       iterVars, kb_event, kb_subscribers, cb_log, cntVars,
                       dropped, resize_args, close_at, budget>>

\* lines 190-208
_on_mouse_move(x, y0) ==
    LET y == _height - y0
        moved == _last_mouse_xy # None
        dx == x - _last_mouse_xy[1]
        dy == y - _last_mouse_xy[2]
        rotating == MOUSE_BUTTON_LEFT \in _mouse_buttons_down /\ moved
        moving == MOUSE_BUTTON_RIGHT \in _mouse_buttons_down /\ moved
    IN  /\ delivering
        /\ IF _is_button_down(KEY_LEFT_ALT, NoMods)
           THEN /\ probes_in_flight < MaxProbes
                /\ _print_cursor_position
           ELSE UNCHANGED probes
        /\ cam_calls' =
             (IF rotating THEN << <<"rotate", dx, dy>> >> ELSE <<>>)
             \o (IF moving
                 THEN << <<"move", Div(-dx, _width), Div(-dy, _width)>> >>
                 ELSE <<>>)
        /\ IF rotating \/ moving THEN update ELSE UNCHANGED update_requested
        /\ _last_mouse_xy' = <<x, y>>
        /\ last_event' = <<"move", <<x, y0, _last_mouse_xy, last_raw_xy>>, env'>>
        /\ last_raw_xy' = <<x, y0>>
        /\ UNCHANGED <<loopVars, viewVars, _edges_mode, _mouse_buttons_down,
                       _keyboard_buttons_down, dc_last, subsVars, fps_stopped,
                       should_close, close_pending, gl_queue, loads, scene,
                       iterVars, kb_event, kb_subscribers, cb_log, cntVars,
                       dropped, resize_args, close_at, budget>>

\* lines 239-240: one call per entry of the dictionary, with the raw event
notify_subscribers(event) ==
    {[name |-> n, cb |-> _on_keyboard_callbacks[n], event |-> event, calls |-> 1] :
        n \in DOMAIN _on_keyboard_callbacks}

\* a projection key that only ever selects the orthographic mode
switch_projection_to_ortho(mode) == ortho

\* lines 216-221
switch_projection(mode) == IF mode = perspective THEN ortho ELSE perspective

\* lines 210-240.  Reading self._edges_mode (line 225) raises AttributeError
\* while the attribute is not set: the callback ends there.
_on_keyboard(key, action, mods) ==
    LET pressed == action = PRESS
        raises == pressed /\ key = KEY_E /\ _edges_mode = "undefined"
    IN  /\ delivering
        /\ kb_event' = <<key, action, mods>>
        /\ last_event' = <<"key", <<key, action, mods>>, env'>>
        /\ kb_subscribers' = _on_keyboard_callbacks
        /\ cam_calls' = <<>>
        /\ IF pressed /\ key = KEY_LEFT_ALT
           THEN /\ probes_in_flight < MaxProbes
                /\ _print_cursor_position
           ELSE UNCHANGED probes
        /\ _camera' =
             IF pressed /\ key = KEY_P
             THEN [_camera EXCEPT !.mode = switch_projection(_camera.mode)]
             ELSE _camera
        /\ IF raises
           THEN /\ cb_log' = {}
                /\ UNCHANGED <<_edges_mode, should_close, _to_do, enq,
                               update_requested, _keyboard_buttons_down>>
           ELSE /\ _edges_mode' =
                     IF pressed /\ key = KEY_E
                     THEN (IF _edges_mode = "true" THEN "false" ELSE "true")
                     ELSE _edges_mode
                /\ should_close' = (should_close \/ (pressed /\ key = KEY_ESCAPE))
                /\ IF pressed /\ key = KEY_S
                   THEN enqueue("screenshot")
                   ELSE UNCHANGED <<_to_do, enq>>
                /\ IF pressed /\ key \in {KEY_P, KEY_E, KEY_ESCAPE, KEY_S}
                   THEN update
                   ELSE UNCHANGED update_requested
                /\ _keyboard_buttons_down' =
                     IF pressed
                     THEN [k \in DOMAIN _keyboard_buttons_down \cup {key} |->
                             IF k = key THEN mods ELSE _keyboard_buttons_down[k]]
                     ELSE IF action = RELEASE
                     THEN [k \in DOMAIN _keyboard_buttons_down \ {key} |->
                             _keyboard_buttons_down[k]]
                     ELSE _keyboard_buttons_down
                /\ cb_log' = notify_subscribers(<<key, action, mods>>)
        /\ UNCHANGED <<pc, di, task_res, ipc, _initialized, _viewport_actual,
                       _width, _height, _last_mouse_xy, _mouse_buttons_down,
                       dc_last, subsVars, fps_stopped, close_pending, gl_queue,
                       loads, scene, ran, fin, frame_calls, vp_calls,
                       gl_viewport, cntVars, dropped, resize_args, close_at,
                       last_raw_xy, budget>>

\* lines 242-247
_on_resize(width, height) ==
    /\ delivering
    /\ _width' = width
    /\ _height' = height
    /\ _viewport_actual' = FALSE
    /\ _camera' = [_camera EXCEPT !.aspect = Div(height, width)]
    /\ update
    /\ vp_calls' = 0
    /\ resize_args' = <<width, height>>
    /\ last_event' = <<"resize", <<width, height>>, env'>>
    /\ cam_calls' = <<>>
    /\ UNCHANGED <<loopVars, inputVars, subsVars, fps_stopped, should_close,
                   close_pending, taskVars, enq, ran, fin, frame_calls,
                   gl_viewport, kb_event, kb_subscribers, cb_log, cntVars,
                   dropped, close_at, last_raw_xy, budget>>

\* line 127
supported(path) == endswith(path, PlySuffix)

\* the loop over the batch ending at the first unsupported path
accepted_until_unsupported(paths) ==
    SelectSeq([i \in 1..Len(paths) |-> i],
              LAMBDA i : \A j \in 1..i : supported(paths[j]))

\* lines 125-130: the positions of the batch a task is started for
accepted(paths) ==
    SelectSeq([i \in 1..Len(paths) |-> i], LAMBDA i : supported(paths[i]))

\* lines 117-130
_on_drop(paths) ==
    /\ delivering
    /\ Len(dropped) < MaxDrops
    /\ dropped' = Append(dropped, paths)
    /\ loads' = loads \o
         [k \in 1..Len(accepted(paths)) |->
            [path |-> paths[accepted(paths)[k]], st |-> "loading",
             drop |-> Len(dropped) + 1, pos |-> accepted(paths)[k]]]
    /\ cam_calls' = <<>>
    /\ last_event' = <<"drop", paths, env'>>
    /\ UNCHANGED <<loopVars, viewVars, inputVars, subsVars, sysVars, gl_queue,
                   probes, scene, iterVars, kb_event, kb_subscribers, cb_log,
                   cntVars, resize_args, close_at, last_raw_xy, budget>>

\* a close callback that leaves the limiter running
_on_window_close_noop == UNCHANGED fps_stopped

\* line 78: the callback registered for the window's close request
_on_window_close == fps_stopped' = TRUE

\* the user asks the window to close; GLFW reports it at the next PollEvents
window_close_request ==
    /\ ~Terminated
    /\ destroy_calls = 0
    /\ ~close_pending
    /\ ~fps_stopped
    /\ env < budget
    /\ env' = env + 1
    /\ close_pending' = TRUE
    /\ close_at' = pc
    /\ UNCHANGED <<loopVars, viewVars, inputVars, subsVars, fps_stopped,
                   update_requested, should_close, taskVars, iterVars, evVars,
                   cntVars, dropped, resize_args, last_event, last_raw_xy,
                   budget>>

\* GLFW sets the should-close flag and then calls the close callback
window_close_deliver ==
    /\ pc = "poll"
    /\ close_pending
    /\ close_pending' = FALSE
    /\ should_close' = TRUE
    /\ _on_window_close
    /\ UNCHANGED <<loopVars, viewVars, inputVars, subsVars, update_requested,
                   taskVars, iterVars, evVars, cntVars, budVars, ghostVars>>

(***************************************************************************)
(* Calls made by the owner of the frame.                                   *)
(***************************************************************************)
\* lines 84-87
add_on_keyboard_callback(name, callback) ==
    /\ env < budget
    /\ env' = env + 1
    /\ destroy_calls = 0
    /\ _on_keyboard_callbacks' =
         [n \in DOMAIN _on_keyboard_callbacks \cup {name} |->
            IF n = name THEN callback ELSE _on_keyboard_callbacks[n]]
    /\ UNCHANGED <<loopVars, viewVars, inputVars, sysVars, taskVars, iterVars,
                   evVars, cntVars, dropped, ghostVars>>

\* lines 89-90, for a registered name
delete_on_keyboard_callback(name) ==
    /\ env < budget
    /\ env' = env + 1
    /\ destroy_calls = 0
    /\ name \in DOMAIN _on_keyboard_callbacks
    /\ _on_keyboard_callbacks' =
         [n \in DOMAIN _on_keyboard_callbacks \ {name} |-> _on_keyboard_callbacks[n]]
    /\ UNCHANGED <<loopVars, viewVars, inputVars, sysVars, taskVars, iterVars,
                   evVars, cntVars, dropped, ghostVars>>

\* lines 281-282.  The model calls it when render_loop is not running: the
\* loop's GLFW calls on a destroyed window are not defined.
close ==
    /\ pc = "new" \/ Terminated
    /\ destroy_calls < MaxCloseCalls
    /\ destroy_calls' = destroy_calls + 1
    /\ UNCHANGED <<loopVars, viewVars, inputVars, subsVars, sysVars, taskVars,
                   iterVars, evVars, reg_count, gl_init_count, rn_init_count,
                   error, budVars, ghostVars>>

Next ==
    \/ \E c \in InitCallers : init(c)
    \/ \E c \in Callers : init_renderer(c)
    \/ \E c \in Callers : init_end(c)
    \/ render_loop_begin
    \/ render_loop_iterate
    \/ PollEvents_return
    \/ render_loop_resume
    \/ render_loop_drain
    \/ render_loop_task_end
    \/ render_viewport
    \/ render_scene
    \/ render_swap
    \/ gl_init_gl_context
    \/ gl_renderer_init
    \/ gl_update_viewport
    \/ gl_renderer_render
    \/ gl_read_pixels
    \/ gl_offscreen_render
    \/ probe_begin
    \/ \E i \in 1..Len(loads) : read_and_register(i)
    \/ \E b \in MouseButtons, a \in {PRESS, RELEASE} : _on_mouse_button(b, a)
    \/ \E y \in {0, 1} : _on_scroll(0, y)
    \/ \E x \in Coords, y \in Coords : _on_mouse_move(x, y)
    \/ \E e \in KeyEvents : _on_keyboard(e[1], e[2], e[3])
    \/ \E w \in Dims, h \in Dims : _on_resize(w, h)
    \/ \E paths \in Batches : _on_drop(paths)
    \/ window_close_request
    \/ window_close_deliver
    \/ \E n \in Names, cb \in Callbacks : add_on_keyboard_callback(n, cb)
    \/ \E n \in Names : delete_on_keyboard_callback(n)
    \/ close

Spec == Init /\ [][Next]_vars

(***************************************************************************)
(* The scheduling the program runs under: the event loop resumes every     *)
(* coroutine that can go on, PollEvents dispatches what is pending and     *)
(* returns, and the graphics worker runs what is queued.                   *)
(***************************************************************************)
RenderLoopStep ==
    \/ init_renderer(LOOP)
    \/ init_end(LOOP)
    \/ render_loop_iterate
    \/ PollEvents_return
    \/ window_close_deliver
    \/ render_loop_resume
    \/ render_loop_drain
    \/ render_loop_task_end
    \/ render_viewport
    \/ render_scene
    \/ render_swap

GlWorkerStep ==
    \/ gl_init_gl_context
    \/ gl_renderer_init
    \/ gl_update_viewport
    \/ gl_renderer_render
    \/ gl_read_pixels
    \/ gl_offscreen_render

FairSpec == Spec /\ WF_vars(RenderLoopStep) /\ WF_vars(GlWorkerStep)

(***************************************************************************)
(* The same program when only the cursor, the mouse buttons and the window *)
(* size act on it: the runs of Spec that take no other input, followed for *)
(* one input more.                                                         *)
(***************************************************************************)
MouseInit == Constructed /\ budget = MaxMouseEnv

MouseNext ==
    \/ init_renderer(LOOP)
    \/ init_end(LOOP)
    \/ render_loop_begin
    \/ render_loop_iterate
    \/ PollEvents_return
    \/ render_loop_resume
    \/ render_loop_drain
    \/ render_loop_task_end
    \/ render_viewport
    \/ render_scene
    \/ render_swap
    \/ gl_init_gl_context
    \/ gl_renderer_init
    \/ gl_update_viewport
    \/ gl_renderer_render
    \/ gl_read_pixels
    \/ \E b \in MouseButtons, a \in {PRESS, RELEASE} : _on_mouse_button(b, a)
    \/ \E x \in Coords, y \in Coords : _on_mouse_move(x, y)
    \/ \E w \in Dims, h \in Dims : _on_resize(w, h)

MouseSpec == MouseInit /\ [][MouseNext]_vars

(***************************************************************************)
(* Properties.                                                             *)
(***************************************************************************)
IsPrefix(a, b) == Len(a) <= Len(b) /\ SubSeq(b, 1, Len(a)) = a

Rendering == pc \in {"render", "vp_wait", "scene", "scene_wait", "swap"}

\* C1: in every iteration the actions enqueued by the poll are begun in
\* enqueue order, one at a time, each completed before the next begins, and
\* when the render call is issued all of them are completed and the queue is
\* empty.
C1_DrainFifoBeforeRender ==
    /\ IsPrefix(ran, enq)
    /\ IsPrefix(fin, ran)
    /\ Len(ran) - Len(fin) <= 1
    /\ Rendering => (fin = enq /\ _to_do = <<>>)

\* two actions of one poll were run in order and the render call is issued
C1_Witness == pc = "vp_wait" /\ enq = <<1, 2>> /\ fin = <<1, 2>>

\* C2: an error raised inside a deferred action does not end render_loop.
C2_ActionErrorContained == ~(pc = "crashed" /\ error \in {"TypeError", "IOError"})

\* C3: when ensure_frame_limit fails with the cancellation, render_loop
\* returns normally into Stopped, and from then on no action is drained, no
\* graphics call is submitted and no buffer is swapped.
C3_CancelIsCleanStop ==
    [][/\ (pc = "wait" /\ fps_stopped /\ pc' # pc) => (pc' = "stopped" /\ error' = "none")
       /\ pc = "stopped" =>
            /\ pc' = "stopped"
            /\ ran' = ran
            /\ fin' = fin
            /\ frame_calls' = frame_calls
            /\ _to_do' = _to_do
            /\ \A i \in 1..Len(gl_queue') : gl_queue'[i].owner # LOOP]_vars

\* the loop was cancelled with an action of the last poll still queued
C3_Witness == pc = "stopped" /\ Len(_to_do) > 0 /\ ran = <<>> /\ error = "none"

\* C4: every graphics call of a frame, the buffer swap included, runs on the
\* graphics worker.
C4_FrameCallsOnGlWorker ==
    \A i \in 1..Len(frame_calls) : frame_calls[i][2] = "gl"

\* C5: the callbacks are registered and the context and the renderer are
\* initialized at most once, and an init() call made once initialization has
\* started fails its assertion.
C5_InitAtMostOnce ==
    /\ reg_count <= 1
    /\ gl_init_count <= 1
    /\ rn_init_count <= 1

\* C6: the window is destroyed at most once over any sequence of close() calls.
C6_DestroyAtMostOnce == destroy_calls <= 1

C8_CloseStopsLoop ==
    /\ [][(close_pending /\ ~close_pending') => fps_stopped']_vars
    /\ (fps_stopped ~> pc = "stopped")

\* the request arrived while the loop awaited a drained action or a render,
\* and the loop has stopped
C8_Witness ==
    /\ pc = "stopped"
    /\ fps_stopped
    /\ close_at \in {"task", "task_done", "vp_wait", "scene_wait"}

\* C9: for every keyboard event each registered subscriber is called exactly
\* once with the raw event.
C9_SubscribersNotified ==
    kb_event # None =>
        cb_log = {[name |-> n, cb |-> kb_subscribers[n], event |-> kb_event,
                   calls |-> 1] : n \in DOMAIN kb_subscribers}

IsPly(path) == path \in {PathGood, PathBroken}

TasksFor(d, i) == {k \in 1..Len(loads) : loads[k].drop = d /\ loads[k].pos = i}

InScene(k) == Cardinality({j \in 1..Len(scene) : scene[j] = k})

\* C10: every path of a batch with a supported extension has its own load
\* task, whose entity is in the scene exactly once when the load succeeded;
\* an unsupported path has no task and no entity; a failed load adds no
\* entity, leaves the other tasks alone and does not end render_loop.
C10_DropTasksIndependent ==
    /\ \A d \in 1..Len(dropped) : \A i \in 1..Len(dropped[d]) :
         IF IsPly(dropped[d][i])
         THEN /\ Cardinality(TasksFor(d, i)) = 1
              /\ \A k \in TasksFor(d, i) :
                   /\ loads[k].path = dropped[d][i]
                   /\ loads[k].st \in
                        IF loads[k].path \in Malformed
                        THEN {"loading", "failed"}
                        ELSE {"loading", "registered"}
                   /\ InScene(k) = IF loads[k].st = "registered" THEN 1 ELSE 0
         ELSE TasksFor(d, i) = {}
    /\ Len(scene) = Cardinality({k \in 1..Len(loads) : loads[k].st = "registered"})
    /\ pc = "crashed" => error \in {"TypeError", "IOError"}

\* a batch with an unsupported path or a failed load, whose other path is
\* loaded and in the scene
C10_Witness ==
    \E d \in 1..Len(dropped) : \E i, j \in 1..Len(dropped[d]) :
        /\ i < j
        /\ \/ ~IsPly(dropped[d][i])
           \/ \E k \in TasksFor(d, i) : loads[k].st = "failed"
        /\ \E k \in TasksFor(d, j) : loads[k].st = "registered" /\ InScene(k) = 1

\* the input event the last handler of this poll was called for
Handled(kind) == last_event # None /\ last_event[1] = kind

\* C11: the first cursor event after construction calls neither rotate nor
\* move and only records the position; a later one, with (dx, dy) its distance
\* from the recorded position, calls rotate(dx, dy) exactly when the left
\* button is down and move(-dx/width, -dy/width) exactly when the right button
\* is down, and calls nothing on the camera when no button is down.
C11_MouseMoveRouting ==
    Handled("move") =>
        LET x == last_event[2][1]
            y0 == last_event[2][2]
            recorded == last_event[2][3]
            dx == _last_mouse_xy[1] - recorded[1]
            dy == _last_mouse_xy[2] - recorded[2]
            left == MOUSE_BUTTON_LEFT \in _mouse_buttons_down
            right == MOUSE_BUTTON_RIGHT \in _mouse_buttons_down
        IN  /\ _last_mouse_xy = <<x, _height - y0>>
            /\ IF recorded = None
               THEN cam_calls = <<>>
               ELSE cam_calls =
                      (IF left THEN << <<"rotate", dx, dy>> >> ELSE <<>>)
                      \o (IF right
                          THEN << <<"move", Div(-dx, _width), Div(-dy, _width)>> >>
                          ELSE <<>>)

\* a drag with the right button over a window that is not square
C11_Witness ==
    /\ Handled("move")
    /\ last_event[2][3] # None
    /\ MOUSE_BUTTON_RIGHT \in _mouse_buttons_down
    /\ _width # _height
    /\ Len(cam_calls) = 1
    /\ cam_calls[1][1] = "move"
    /\ cam_calls[1][3] # Div(0, 1)

\* the step in which DoubleClickHandler reports a double click of dc_last
DoubleClickStep == dc_last # "none" /\ dc_last' = "none"

\* C12: a double click reported for the left button appends exactly one focus
\* action to _to_do and requests a redraw, a double click of another button
\* enqueues nothing and requests nothing, and the callback leaves the camera
\* alone: the target is assigned only when the drain finishes a focus action.
C12_DoubleClickDefersFocus ==
    [][ /\ DoubleClickStep =>
             /\ IF dc_last = MOUSE_BUTTON_LEFT
                THEN /\ Len(_to_do') = Len(_to_do) + 1
                     /\ SubSeq(_to_do', 1, Len(_to_do)) = _to_do
                     /\ _to_do'[Len(_to_do')].kind = "focus"
                     /\ update_requested'
                ELSE /\ _to_do' = _to_do
                     /\ update_requested' = update_requested
             /\ _camera' = _camera
        /\ _camera'.target # _camera.target =>
             pc = "task_done" /\ next_task.kind = "focus"
      ]_vars

\* the left button was double-clicked in this poll and the action is waiting
C12_Witness ==
    /\ pc = "poll"
    /\ Handled("button")
    /\ last_event[2] = <<MOUSE_BUTTON_LEFT, PRESS>>
    /\ dc_last = "none"
    /\ Len(_to_do) = 1
    /\ _to_do[1].kind = "focus"
    /\ update_requested
    /\ _camera.target = None

\* the step in which the handler of an input event of this kind runs
HandlerStep(kind) ==
    /\ env' = env + 1
    /\ last_event' # None
    /\ last_event'[3] = env'
    /\ last_event'[1] = kind

\* a step of a cursor probe: it starts, or its glReadPixels task runs
ProbeStep ==
    \/ probes' = probes - 1
    \/ /\ gl_queue # <<>>
       /\ Head(gl_queue).owner = PROBE
       /\ gl_queue' = Tail(gl_queue)

\* C13: while the alt key is held (pressed and not released, whatever
\* modifiers were reported with the press) every cursor event starts a cursor
\* probe, and no step of a probe changes the camera.
C13_AltHeldProbesEveryMove ==
    [][ /\ (HandlerStep("move") /\ KEY_LEFT_ALT \in DOMAIN _keyboard_buttons_down)
             => probes' = probes + 1
        /\ ProbeStep => _camera' = _camera
      ]_vars

\* C14: on a freshly constructed Frame3D a press of the edge-rendering key
\* succeeds, leaves _edges_mode a defined boolean that differs from the value
\* before the press (so that two presses restore it), and requests a redraw.
C14_EdgeKeyToggles ==
    [][ (HandlerStep("key") /\ last_event'[2][1] = KEY_E /\ last_event'[2][2] = PRESS) =>
            /\ _edges_mode' \in {"true", "false"}
            /\ _edges_mode' # _edges_mode
            /\ update_requested'
      ]_vars

\* C15: once the window's should-close flag is set (the close key during a
\* poll), render_loop ends: it finishes at most the iteration in progress, so
\* at most one more drain and one more render, and its next test of the flag
\* leaves the loop without calling the frame limiter or PollEvents again.
C15_CloseFlagEndsLoop ==
    /\ [][ /\ (should_close /\ pc' = "poll") => pc = "poll"
           /\ (should_close /\ pc = "top" /\ pc' # pc) => pc' = "closed"
         ]_vars
    /\ (should_close ~> Terminated)

\* the close key was pressed in a poll and the loop returned at its next test
C15_Witness ==
    /\ pc = "closed"
    /\ should_close
    /\ ~fps_stopped
    /\ KEY_ESCAPE \in DOMAIN _keyboard_buttons_down

\* the other camera mode
toggled(mode) == IF mode = perspective THEN ortho ELSE perspective

\* C16: the camera mode is always perspective or orthographic; every press of
\* the projection key switches it to the other mode and requests a redraw,
\* and no other step changes it.
C16_ProjectionToggle ==
    /\ [](_camera.mode \in {perspective, ortho})
    /\ [][ IF /\ HandlerStep("key")
              /\ last_event'[2][1] = KEY_P
              /\ last_event'[2][2] = PRESS
           THEN /\ _camera'.mode = toggled(_camera.mode)
                /\ update_requested'
           ELSE _camera'.mode = _camera.mode
         ]_vars

\* the projection key was pressed once
C16_Witness ==
    /\ Handled("key")
    /\ last_event[2] = <<KEY_P, PRESS, NoMods>>
    /\ _camera.mode = ortho
    /\ update_requested

\* C17: whenever a cursor probe or a focus action starts to execute, the last
\* cursor position is set: no order of events (an alt press or a left double
\* click before any cursor event) makes the unprojection read None.
C17_CursorKnownWhenRead ==
    [][ /\ probes' = probes - 1 => _last_mouse_xy # None
        /\ ( /\ pc = "drain"
             /\ pc' # "drain"
             /\ di <= Len(_to_do)
             /\ next_task.kind = "focus" ) => _last_mouse_xy # None
      ]_vars

\* C18: the delta handed to rotate and move depends on the two cursor
\* positions only: for consecutive cursor events at the raw positions (x1, y1)
\* and (x2, y2) it is (x2 - x1, -(y2 - y1)), whatever was handled in between,
\* a resize that changes the stored height included.
C18_DeltaFromCursorPositions ==
    (Handled("move") /\ last_event[2][4] # None) =>
        LET dx == last_event[2][1] - last_event[2][4][1]
            dy == -(last_event[2][2] - last_event[2][4][2])
        IN  \A i \in 1..Len(cam_calls) :
                IF cam_calls[i][1] = "rotate"
                THEN cam_calls[i] = <<"rotate", dx, dy>>
                ELSE cam_calls[i] = <<"move", Div(-dx, _width), Div(-dy, _width)>>

\* C19: a focus action unprojects the pixel the cursor was at when the double
\* click was handled: cursor events handled after the double click and before
\* the drain (the same poll) do not change the pixel.
C19_FocusAtDoubleClickPosition ==
    ( /\ pc = "task_done"
      /\ next_task.kind = "focus"
      /\ next_task.cursor # None ) =>
        <<task_res[1], task_res[2]>> = next_task.cursor

\* C20: no deferred action is lost: when render_loop has returned, every
\* action appended to _to_do has been executed, the actions enqueued in the
\* poll in which the window-close request or the close key arrived included.
C20_NoActionLost ==
    pc \in {"stopped", "closed"} =>
        \A i \in 1..Len(_to_do) : \E j \in 1..Len(fin) : fin[j] = _to_do[i].id

====
